---------------------------- MODULE Spec2Model ----------------------------
(***************************************************************************)
(* RepoDoctor: the dependency graph (DependencyGraph), its DFS cycle       *)
(* detection (DetectCycles), the circular-dependency rule and the          *)
(* structural scorer, as a state machine.                                  *)
(*                                                                         *)
(* A run has two phases, as in runAnalyze and in the tests: the graph is   *)
(* built with AddNode and AddEdge, then it is analysed and no longer       *)
(* changed.  DetectCycles is modelled step by step: one action per         *)
(* iteration of its root loop and per iteration of the successor loop of   *)
(* dfs.  Go leaves the iteration order of a map unspecified, so every      *)
(* `range` over a map is a nondeterministic choice of the order.           *)
(*                                                                         *)
(* Spec        the graph, built by any calls and analysed by direct calls  *)
(*             of DetectCycles;                                            *)
(* SpecScore   the graph, built by any calls, and a StructuralScorer over  *)
(*             it, analysed by calls of CalculateScore;                    *)
(* SpecShapes  DetectCycles on the graphs of the cycle tests (rings, two   *)
(*             disjoint 2-cycles) over more nodes;                         *)
(* SpecLayer   detectLayer on paths of several components;                 *)
(* SpecCounts  the arithmetic of CalculateScore on any violation counts;   *)
(* SpecTwoCycle  a scorer over a graph whose edges are one 2-cycle;        *)
(* SpecWeights the scorer of scoring.go, which is given its weights;       *)
(* SpecRead    the graph built, read through its getters and analysed;     *)
(* SpecOneScorer  CalculateScore repeated on the one scorer of a run;      *)
(* SpecFair    one call of DetectCycles that is let run to its end;        *)
(* SpecConfig  ConfigLoader: Load and mergeWithDefaults on config files;   *)
(* SpecTrend   TrendAnalyzer: AppendScore and CalculateDelta;              *)
(* SpecRuns    successive analyze runs on one directory, their history;    *)
(* SpecAnalyze one run of the analyze command, to its exit code;           *)
(* SpecJoin    the two graph passes of CalculateScore interleaved.         *)
(***************************************************************************)
EXTENDS Integers, Sequences, FiniteSets, TLC

\* ------------------------------------------------------------------ bounds
MaxEdges == 4        \* most edges a built graph holds
MaxRuns == 2         \* most analysis calls (DetectCycles, CalculateScore) per run
MaxRing == 4         \* most nodes of a ring graph
MaxSegments == 3     \* most components of a path given to detectLayer
MaxCount == 11       \* most violations a rule holds when the score is computed from counts
MaxHistory == 3      \* most entries the score history holds
MaxFindings == 1     \* most violations the size rule, and the god-object rule, find in a directory

\* The node identifiers (file or package paths) the builder draws from.
NodeIds == {"handler/h", "service/s", "repo/r"}

\* Further identifiers, for the graphs of four and more nodes.
MoreIds == {"A", "B"}
AllIds == NodeIds \cup MoreIds

\* The characters of each identifier, as detectLayer scans them.
Chars(id) ==
    CASE id = "A" -> <<"A">>
      [] id = "B" -> <<"B">>
      [] id = "handler/h" -> <<"h", "a", "n", "d", "l", "e", "r", "/", "h">>
      [] id = "service/s" -> <<"s", "e", "r", "v", "i", "c", "e", "/", "s">>
      [] id = "repo/r" -> <<"r", "e", "p", "o", "/", "r">>

\* Program constants.
MaxScore == 100
CircularDependencyPenalty == 10
LayerViolationPenalty == 5
SizeViolationPenalty == 3
GodObjectPenalty == 5

VARIABLES
    nodes,        \* DependencyGraph.nodes: the keys of the map
    adjacency,    \* DependencyGraph.adjacency: key -> set of successors
    edgesAdded,   \* history: the pairs <<from, to>> AddEdge has been called with
    lastCall,     \* history: the last call of the build phase and the graph
                  \* it was made on
    phase,        \* "build": the graph is being built | "frozen": it is being
                  \* analysed | "scorer": a StructuralScorer exists over it
    pc,           \* "idle", or the operation that is running DetectCycles:
                  \* "DetectCycles" (called directly) | "CalculateScore"
    todo,         \* nodes the root loop `range g.nodes` has not yielded yet
    visited,      \* DetectCycles: keys of visited holding true
    recStack,     \* DetectCycles: keys of recStack holding true
    path,         \* DetectCycles: the current DFS path
    cycles,       \* DetectCycles: the cycles found so far
    stack,        \* call stack of dfs: frames [node, deps] (deps still to visit)
    runs,         \* the cycle lists DetectCycles has returned to direct callers
    circularViolations,  \* CircularDependencyRule.violations
    layerViolations,     \* LayerValidationRule.violations
    sizeCount,           \* len(sizeRule.violations)
    godObjectCount,      \* len(godObjectRule.violations)
    score,               \* StructuralScorer.score
    dir,                 \* the analysed directory: its path ("" for none) and the
                         \* violations the size and god-object rules find in it
    scores,              \* the Scores CalculateScore has returned
    packagePath,         \* detectLayer: its argument, a string as its characters
    detected,            \* detectLayer: its result ("" before the call)
    counts,              \* the numbers of violations the four rules hold
    given,               \* scoring.go: the weights argument of NewStructuralScorer
    weights,             \* scoring.go: StructuralScorer.weights
    parsed,              \* ConfigLoader.Load: the config file and the Config parsed from it
    config,              \* the *Config loadConfiguration returns
    violations,          \* GenerateReport: its local `violations`
    report,              \* the StructuralReport GenerateReport returns
    exitCode,            \* the exit code of the analyze command (-1: running)
    historyFile,         \* .repodoctor/history.json: its entries
    history,             \* TrendAnalyzer.history
    trend,               \* what CalculateDelta returned last, and for which
                         \* score and length of the history
    summaries,           \* history: what GetTrendSummary reported, run by run
    layerPc,             \* LayerValidationRule.Check run as a pass of its own:
                         \* "idle" | "Check" | "done"
    layerTodo            \* that pass: the nodes of its slice still to visit

vars == <<nodes, adjacency, edgesAdded, lastCall, phase, pc, todo, visited, recStack, path, cycles,
          stack, runs, circularViolations, layerViolations, sizeCount,
          godObjectCount, score, dir, scores, packagePath, detected, counts, given,
          weights, parsed, config, violations, report, exitCode, historyFile,
          history, trend, summaries, layerPc, layerTodo>>

graphVars == <<nodes, adjacency, edgesAdded, lastCall>>

scorerVars == <<circularViolations, layerViolations, sizeCount, godObjectCount,
                score, dir>>

dfsVars == <<todo, visited, recStack, path, cycles, stack>>

\* The state of the functions that are run on their own.
unitVars == <<packagePath, detected, counts, given, weights>>

\* The state of the analyze command around the scorer, and of the layer pass.
runVars == <<parsed, config, violations, report, exitCode, historyFile, history,
             trend, summaries, layerPc, layerTodo>>

\* ----------------------------------------------------------------- helpers
\* All orders in which a `range` over a map with key set S can yield S.
Orders(S) ==
    {s \in [1..Cardinality(S) -> S] : \A i, j \in 1..Cardinality(S) :
                                         s[i] = s[j] => i = j}

RECURSIVE SumOver(_, _)
SumOver(f, S) ==
    IF S = {} THEN 0
    ELSE LET x == CHOOSE y \in S : TRUE
         IN  f[x] + SumOver(f, S \ {x})

\* ------------------------------------------------------- the graph (ADT)
\* The graph as a value: [nodes |-> set, adjacency |-> function].
NewDependencyGraph == [nodes |-> {}, adjacency |-> <<>>]

\* AddNode without the membership test: the successor set is always reset.
AddNodeOpReset(g, name) ==
    [nodes |-> g.nodes \cup {name},
     adjacency |-> [n \in DOMAIN g.adjacency \cup {name} |->
                       IF n = name THEN {} ELSE g.adjacency[n]]]

AddNodeOp(g, name) ==
    IF name \notin g.nodes
    THEN [nodes |-> g.nodes \cup {name},
          adjacency |->
              IF name \notin DOMAIN g.adjacency
              THEN [n \in DOMAIN g.adjacency \cup {name} |->
                       IF n = name THEN {} ELSE g.adjacency[n]]
              ELSE g.adjacency]
    ELSE g

\* AddEdge that creates both endpoints and forgets the edge.
AddEdgeOpNodesOnly(g, from, to) == AddNodeOp(AddNodeOp(g, from), to)

\* AddEdge that does not create the target node.
AddEdgeOpNoTarget(g, from, to) ==
    LET g1 == AddNodeOp(g, from)
    IN  [g1 EXCEPT !.adjacency[from] = @ \cup {to}]

\* AddEdge that drops an edge from a node to itself.
AddEdgeOpNoSelfLoop(g, from, to) ==
    LET g1 == AddNodeOp(g, from)
        g2 == AddNodeOp(g1, to)
    IN  IF from = to THEN g2
        ELSE [g2 EXCEPT !.adjacency[from] = @ \cup {to}]

AddEdgeOp(g, from, to) ==
    LET g1 == AddNodeOp(g, from)
        g2 == AddNodeOp(g1, to)
    IN  IF to \notin g2.adjacency[from]
        THEN [g2 EXCEPT !.adjacency[from] = @ \cup {to}]
        ELSE g2

\* GetDependencies that answers the node itself when it has no successor.
GetDependenciesSelf(g, name) ==
    IF name \notin DOMAIN g.adjacency
    THEN {<<>>}
    ELSE IF g.adjacency[name] = {} THEN {<<name>>}
    ELSE Orders(g.adjacency[name])

\* The slices GetDependencies may return: the successors in any order.
GetDependencies(g, name) ==
    IF name \notin DOMAIN g.adjacency
    THEN {<<>>}
    ELSE Orders(g.adjacency[name])

\* The slices GetAllNodes may return.
GetAllNodes(g) == Orders(g.nodes)

GetNodeCount(g) == Cardinality(g.nodes)

\* GetEdgeCount that counts the nodes with successors, not the successors.
GetEdgeCountKeys(g) ==
    Cardinality({n \in DOMAIN g.adjacency : g.adjacency[n] # {}})

GetEdgeCount(g) ==
    SumOver([n \in DOMAIN g.adjacency |-> Cardinality(g.adjacency[n])],
            DOMAIN g.adjacency)

Graph == [nodes |-> nodes, adjacency |-> adjacency]

NoCall == [op |-> "none"]

\* ------------------------------------------------- layer classification
KeywordChars(keyword) ==
    CASE keyword = "handler" -> <<"h", "a", "n", "d", "l", "e", "r">>
      [] keyword = "service" -> <<"s", "e", "r", "v", "i", "c", "e">>
      [] keyword = "repo" -> <<"r", "e", "p", "o">>

IsSeparator(c) == c = "/" \/ c = "\\"

\* containsLayerKeyword without the word-boundary test: any occurrence counts.
containsLayerKeywordAnywhere(path_, keyword) ==
    LET kw == KeywordChars(keyword)
        n == Len(path_)
        k == Len(kw)
    IN  /\ n >= k
        /\ \E i \in 1..(n - k + 1) : SubSeq(path_, i, i + k - 1) = kw

\* containsLayerKeyword: the keyword occurs in path between separators or ends.
containsLayerKeyword(path_, keyword) ==
    LET kw == KeywordChars(keyword)
        n == Len(path_)
        k == Len(kw)
    IN  /\ n >= k
        /\ \E i \in 1..(n - k + 1) :
              /\ SubSeq(path_, i, i + k - 1) = kw
              /\ (i = 1 \/ IsSeparator(path_[i - 1]))
              /\ (i + k - 1 = n \/ IsSeparator(path_[i + k]))

detectLayer(pkgPath) ==
    IF containsLayerKeyword(pkgPath, "handler") THEN "handler"
    ELSE IF containsLayerKeyword(pkgPath, "service") THEN "service"
    ELSE IF containsLayerKeyword(pkgPath, "repo") THEN "repo"
    ELSE "service"

layerOrder == [handler |-> 0, service |-> 1, repo |-> 2]

\* isUpwardImport that flags every import between two different layers.
isUpwardImportAnyLayer(from, to) ==
    IF from \notin DOMAIN layerOrder \/ to \notin DOMAIN layerOrder
    THEN FALSE
    ELSE layerOrder[to] # layerOrder[from]

isUpwardImport(from, to) ==
    IF from \notin DOMAIN layerOrder \/ to \notin DOMAIN layerOrder
    THEN FALSE
    ELSE layerOrder[to] < layerOrder[from]

\* The layer of every identifier of the model.
LayerOf == [id \in AllIds |-> detectLayer(Chars(id))]

\* formatLayerViolation: the parts the message is made of.
formatLayerViolation(from, to, fromLayer, toLayer) ==
    <<from, fromLayer, to, toLayer, "upward import not allowed">>

\* LayerValidationRule.Check, inner loop: the violations node adds when its
\* dependencies come as the slice deps.
LayerViolationsAt(node, deps) ==
    LET up == SelectSeq(deps, LAMBDA d : isUpwardImport(LayerOf[node], LayerOf[d]))
    IN  [i \in 1..Len(up) |->
            [From |-> node, To |-> up[i],
             Message |-> formatLayerViolation(node, up[i], LayerOf[node],
                                              LayerOf[up[i]])]]

\* LayerValidationRule.Check, outer loop: the violation lists the loop over the
\* nodes in rest can append, GetAllNodes and GetDependencies yielding any order.
RECURSIVE LayerCheck(_, _)
LayerCheck(g, rest) ==
    IF rest = {} THEN {<<>>}
    ELSE UNION {{LayerViolationsAt(node, deps) \o more :
                    deps \in GetDependencies(g, node),
                    more \in LayerCheck(g, rest \ {node})} : node \in rest}

\* ------------------------------------------------------------ the scorer
\* One violation per node of every cycle instead of one per cycle.
CycleViolationsPerNode(cs) ==
    LET kept == SelectSeq(cs, LAMBDA c : Len(c) > 0)
        RECURSIVE flat(_)
        flat(rest) ==
            IF rest = <<>> THEN <<>>
            ELSE [i \in 1..Len(Head(rest)) |->
                     [Path |-> Head(rest), Severity |-> "critical"]]
                 \o flat(Tail(rest))
    IN  flat(kept)

\* CircularDependencyRule.Check, lines 39-46: one violation per non-empty cycle.
CycleViolations(cs) ==
    LET kept == SelectSeq(cs, LAMBDA c : Len(c) > 0)
    IN  [i \in 1..Len(kept) |-> [Path |-> kept[i], Severity |-> "critical"]]

\* No directory is given to the scorer (dirPath is "").
NoDir == [path |-> "", size |-> 0, godObject |-> 0]

NewScore ==
    [TotalScore |-> 0, CircularPenalty |-> 0, LayerPenalty |-> 0,
     SizePenalty |-> 0, GodObjectPenalty |-> 0, ViolationCount |-> 0,
     CircularCount |-> 0, LayerCount |-> 0, SizeCount |-> 0,
     GodObjectCount |-> 0, MaxScore |-> MaxScore]

\* The score that leaves the god objects out of the totals.
ComputeScoreNoGodObject(circular, layer, size, godObject) ==
    LET circularPenalty == circular * CircularDependencyPenalty
        layerPenalty == layer * LayerViolationPenalty
        sizePenalty == size * SizeViolationPenalty
        godObjectPenalty == godObject * GodObjectPenalty
        totalPenalty == circularPenalty + layerPenalty + sizePenalty
        total == MaxScore - totalPenalty
    IN  [TotalScore |-> IF total < 0 THEN 0 ELSE total,
         CircularPenalty |-> circularPenalty,
         LayerPenalty |-> layerPenalty,
         SizePenalty |-> sizePenalty,
         GodObjectPenalty |-> godObjectPenalty,
         ViolationCount |-> circular + layer + size,
         CircularCount |-> circular,
         LayerCount |-> layer,
         SizeCount |-> size,
         GodObjectCount |-> godObject,
         MaxScore |-> MaxScore]

\* The score without the clamp at zero.
ComputeScoreNoClamp(circular, layer, size, godObject) ==
    LET circularPenalty == circular * CircularDependencyPenalty
        layerPenalty == layer * LayerViolationPenalty
        sizePenalty == size * SizeViolationPenalty
        godObjectPenalty == godObject * GodObjectPenalty
        totalPenalty == circularPenalty + layerPenalty + sizePenalty
                            + godObjectPenalty
    IN  [TotalScore |-> MaxScore - totalPenalty,
         CircularPenalty |-> circularPenalty,
         LayerPenalty |-> layerPenalty,
         SizePenalty |-> sizePenalty,
         GodObjectPenalty |-> godObjectPenalty,
         ViolationCount |-> circular + layer + size + godObject,
         CircularCount |-> circular,
         LayerCount |-> layer,
         SizeCount |-> size,
         GodObjectCount |-> godObject,
         MaxScore |-> MaxScore]

\* CalculateScore, lines 98-127: the Score of the four violation counts.
ComputeScore(circular, layer, size, godObject) ==
    LET circularPenalty == circular * CircularDependencyPenalty
        layerPenalty == layer * LayerViolationPenalty
        sizePenalty == size * SizeViolationPenalty
        godObjectPenalty == godObject * GodObjectPenalty
        totalPenalty == circularPenalty + layerPenalty + sizePenalty
                            + godObjectPenalty
        total == MaxScore - totalPenalty
    IN  [TotalScore |-> IF total < 0 THEN 0 ELSE total,
         CircularPenalty |-> circularPenalty,
         LayerPenalty |-> layerPenalty,
         SizePenalty |-> sizePenalty,
         GodObjectPenalty |-> godObjectPenalty,
         ViolationCount |-> circular + layer + size + godObject,
         CircularCount |-> circular,
         LayerCount |-> layer,
         SizeCount |-> size,
         GodObjectCount |-> godObject,
         MaxScore |-> MaxScore]

\* -------------------------------------------------------------------- Init
\* No counts have been taken.
NoCounts == [circular |-> 0, layer |-> 0, size |-> 0, godObject |-> 0]

\* scoring.go: the nil *ScoringWeights.
NilWeights ==
    [present |-> FALSE, CircularDependencyPenalty |-> 0,
     LayerViolationPenalty |-> 0, GodObjectPenalty |-> 0]

\* No function is run on its own.
UnitIdle ==
    /\ packagePath = <<>>
    /\ detected = ""
    /\ counts = NoCounts
    /\ given = NilWeights
    /\ weights = NilWeights

\* config.go: a Config none of whose sections is present (the zero Config).
\* A flag is "nil", "true" or "false": a *bool.
NoConfig ==
    [Size |-> [present |-> FALSE, MaxFileLines |-> 0, MaxFunctionLines |-> 0],
     GodObject |-> [present |-> FALSE, MaxFields |-> 0, MaxMethods |-> 0],
     Rules |-> [present |-> FALSE, EnableSizeRule |-> "nil",
                EnableGodObjectRule |-> "nil"]]

\* No config file: what ConfigLoader.Load finds at configPath ("missing",
\* "unreadable", "invalid" or "parsed") and, when parsed, the Config the YAML
\* gives.
NoFile == [file |-> "missing", cfg |-> NoConfig]

\* GetAllViolations on a scorer none of whose rules holds a violation.
NoViolations == [Circular |-> <<>>, Layer |-> <<>>, Size |-> 0, GodObject |-> 0]

\* No report has been generated.
NoReport ==
    [made |-> FALSE, Score |-> NewScore, Circular |-> <<>>, Layer |-> <<>>,
     Size |-> 0, HasViolations |-> FALSE]

\* CalculateDelta has not been called.
NoTrend ==
    [called |-> FALSE, at |-> 0, currentScore |-> 0, delta |-> 0, trend |-> "",
     hasPrevious |-> FALSE]

\* The analyze command is not running, and no layer pass of its own.
RunIdle ==
    /\ parsed = NoFile
    /\ config = NoConfig
    /\ violations = NoViolations
    /\ report = NoReport
    /\ exitCode = -1
    /\ historyFile = <<>>
    /\ history = <<>>
    /\ trend = NoTrend
    /\ summaries = <<>>
    /\ layerPc = "idle"
    /\ layerTodo = <<>>

\* NewDependencyGraph has returned; there is no scorer yet.
InitCore ==
    /\ nodes = NewDependencyGraph.nodes
    /\ adjacency = NewDependencyGraph.adjacency
    /\ edgesAdded = {}
    /\ lastCall = NoCall
    /\ phase = "build"
    /\ pc = "idle"
    /\ todo = {}
    /\ visited = {}
    /\ recStack = {}
    /\ path = <<>>
    /\ cycles = <<>>
    /\ stack = <<>>
    /\ runs = <<>>
    /\ circularViolations = <<>>
    /\ layerViolations = <<>>
    /\ sizeCount = 0
    /\ godObjectCount = 0
    /\ score = NewScore
    /\ dir = NoDir
    /\ scores = <<>>

InitSystem == InitCore /\ RunIdle

Init == InitSystem /\ UnitIdle

\* --------------------------------------------------------- building phase
AddNode(name) ==
    /\ phase = "build"
    /\ LET g == AddNodeOp(Graph, name)
       IN  /\ nodes' = g.nodes
           /\ adjacency' = g.adjacency
    /\ lastCall' = [op |-> "AddNode", name |-> name, before |-> Graph]
    /\ UNCHANGED <<runVars, unitVars, edgesAdded, phase, pc, dfsVars, runs, scorerVars, scores>>

AddEdge(from, to) ==
    /\ phase = "build"
    /\ LET g == AddEdgeOp(Graph, from, to)
       IN  /\ GetEdgeCount(g) <= MaxEdges
           /\ nodes' = g.nodes
           /\ adjacency' = g.adjacency
    /\ edgesAdded' = edgesAdded \cup {<<from, to>>}
    /\ lastCall' = [op |-> "AddEdge", from |-> from, to |-> to, before |-> Graph,
                    added |-> edgesAdded]
    /\ UNCHANGED <<runVars, unitVars, phase, pc, dfsVars, runs, scorerVars, scores>>

\* NewStructuralScorer over the finished graph: the graph is no longer
\* changed.  The size and god-object rules are run on the directory when
\* dirPath is not "".
NewStructuralScorer ==
    /\ pc = "idle"
    /\ phase' = "scorer"
    /\ sizeCount' = IF dir.path # "" THEN dir.size ELSE 0
    /\ godObjectCount' = IF dir.path # "" THEN dir.godObject ELSE 0
    /\ circularViolations' = <<>>
    /\ layerViolations' = <<>>
    /\ score' = NewScore
    /\ lastCall' = NoCall
    /\ UNCHANGED <<runVars, unitVars, nodes, adjacency, edgesAdded, pc, dfsVars, runs, dir, scores>>

\* ------------------------------------------------------------ DetectCycles
\* The search of the path that starts the cycle one place too late.
CycleStartOffByOne(p, dep) ==
    IF \E i \in 1..Len(p) : p[i] = dep
    THEN 1 + CHOOSE i \in 1..Len(p) :
                 /\ p[i] = dep
                 /\ \A j \in 1..(i - 1) : p[j] # dep
    ELSE 0

\* Lines 107-113: index of the first occurrence of dep in path, 0 if none.
CycleStart(p, dep) ==
    IF \E i \in 1..Len(p) : p[i] = dep
    THEN CHOOSE i \in 1..Len(p) :
             /\ p[i] = dep
             /\ \A j \in 1..(i - 1) : p[j] # dep
    ELSE 0

\* The extraction that keeps only the first cycle found.
WithCycleFirstOnly(cs, p, dep) ==
    IF CycleStart(p, dep) # 0 /\ cs = <<>>
    THEN Append(cs, SubSeq(p, CycleStart(p, dep), Len(p)))
    ELSE cs

\* The extraction that reports the whole path as the cycle.
WithCycleWholePath(cs, p, dep) == Append(cs, p)

\* Lines 114-117: the cycle list after a back edge to dep.
WithCycle(cs, p, dep) ==
    IF CycleStart(p, dep) # 0
    THEN Append(cs, SubSeq(p, CycleStart(p, dep), Len(p)))
    ELSE cs

\* Lines 91-94: DetectCycles starts with empty bookkeeping.
DetectCyclesStart ==
    /\ todo' = nodes
    /\ visited' = {}
    /\ recStack' = {}
    /\ path' = <<>>
    /\ cycles' = <<>>
    /\ stack' = <<>>

\* DetectCycles returns: its locals are gone.
DetectCyclesEnd ==
    /\ todo' = {}
    /\ visited' = {}
    /\ recStack' = {}
    /\ path' = <<>>
    /\ cycles' = <<>>
    /\ stack' = <<>>

\* The root loop is over and no dfs is running.
DetectCyclesDone == stack = <<>> /\ todo = {}

\* A direct call of DetectCycles: from the first one on the graph is no
\* longer changed.
DetectCyclesCall ==
    /\ pc = "idle"
    /\ Len(runs) + Len(scores) < MaxRuns
    /\ pc' = "DetectCycles"
    /\ phase' = IF phase = "build" THEN "frozen" ELSE phase
    /\ lastCall' = NoCall
    /\ DetectCyclesStart
    /\ UNCHANGED <<runVars, unitVars, nodes, adjacency, edgesAdded, runs, scorerVars, scores>>

\* A dfs that does not mark the node it enters as visited.
DfsEnterNoMark(node, frames) ==
    /\ visited' = visited
    /\ recStack' = recStack \cup {node}
    /\ path' = Append(path, node)
    /\ \E deps \in GetDependencies(Graph, node) :
          stack' = Append(frames, [node |-> node, deps |-> deps])

\* dfs(node), lines 97-100 and the call of GetDependencies of line 102.
DfsEnter(node, frames) ==
    /\ visited' = visited \cup {node}
    /\ recStack' = recStack \cup {node}
    /\ path' = Append(path, node)
    /\ \E deps \in GetDependencies(Graph, node) :
          stack' = Append(frames, [node |-> node, deps |-> deps])

\* A root loop that stops after its first iteration.
RootLoopOnce ==
    /\ pc # "idle"
    /\ stack = <<>>
    /\ \E node \in todo :
        /\ todo' = {}
        /\ IF node \notin visited
           THEN DfsEnter(node, stack)
           ELSE UNCHANGED <<visited, recStack, path, stack>>
    /\ UNCHANGED <<runVars, unitVars, graphVars, phase, pc, cycles, runs, scorerVars, scores>>

\* Lines 127-131: one iteration of `for node := range g.nodes`.
RootLoop ==
    /\ pc # "idle"
    /\ stack = <<>>
    /\ \E node \in todo :
        /\ todo' = todo \ {node}
        /\ IF node \notin visited
           THEN DfsEnter(node, stack)
           ELSE UNCHANGED <<visited, recStack, path, stack>>
    /\ UNCHANGED <<runVars, unitVars, graphVars, phase, pc, cycles, runs, scorerVars, scores>>

\* Lines 102-119: one iteration of the successor loop of the running dfs.
DfsStep ==
    /\ pc # "idle"
    /\ stack # <<>>
    /\ stack[Len(stack)].deps # <<>>
    /\ LET top == stack[Len(stack)]
           dep == Head(top.deps)
           frames == [stack EXCEPT ![Len(stack)].deps = Tail(top.deps)]
       IN  IF dep \notin visited
           THEN /\ DfsEnter(dep, frames)
                /\ UNCHANGED cycles
           ELSE /\ cycles' = IF dep \in recStack
                             THEN WithCycle(cycles, path, dep)
                             ELSE cycles
                /\ stack' = frames
                /\ UNCHANGED <<visited, recStack, path>>
    /\ UNCHANGED <<runVars, unitVars, graphVars, phase, pc, todo, runs, scorerVars, scores>>

\* A dfs that pops the path on return but leaves the node flagged.
DfsReturnKeepFlag ==
    /\ pc # "idle"
    /\ stack # <<>>
    /\ stack[Len(stack)].deps = <<>>
    /\ path' = SubSeq(path, 1, Len(path) - 1)
    /\ stack' = SubSeq(stack, 1, Len(stack) - 1)
    /\ UNCHANGED <<runVars, unitVars, graphVars, phase, pc, todo, visited, recStack, cycles,
                   runs, scorerVars, scores>>

\* A dfs that returns without backtracking: the node stays on the path.
DfsReturnNoBacktrack ==
    /\ pc # "idle"
    /\ stack # <<>>
    /\ stack[Len(stack)].deps = <<>>
    /\ stack' = SubSeq(stack, 1, Len(stack) - 1)
    /\ UNCHANGED <<runVars, unitVars, graphVars, phase, pc, todo, visited, recStack, path, cycles,
                   runs, scorerVars, scores>>

\* Lines 121-123: backtrack.
DfsReturn ==
    /\ pc # "idle"
    /\ stack # <<>>
    /\ stack[Len(stack)].deps = <<>>
    /\ path' = SubSeq(path, 1, Len(path) - 1)
    /\ recStack' = recStack \ {stack[Len(stack)].node}
    /\ stack' = SubSeq(stack, 1, Len(stack) - 1)
    /\ UNCHANGED <<runVars, unitVars, graphVars, phase, pc, todo, visited, cycles, runs,
                   scorerVars, scores>>

\* Line 133: return cycles to the direct caller.
DetectCyclesReturn ==
    /\ pc = "DetectCycles"
    /\ DetectCyclesDone
    /\ pc' = "idle"
    /\ runs' = Append(runs, cycles)
    /\ DetectCyclesEnd
    /\ UNCHANGED <<runVars, unitVars, graphVars, phase, scorerVars, scores>>

\* ---------------------------------------------------------- CalculateScore
\* CalculateScore, lines 91-96, up to the call of DetectCycles in
\* CircularDependencyRule.Check (circular_rule.go lines 35-37).
CalculateScoreCall ==
    /\ phase = "scorer"
    /\ pc = "idle"
    /\ Len(runs) + Len(scores) < MaxRuns
    /\ pc' = "CalculateScore"
    /\ score' = NewScore
    /\ circularViolations' = <<>>
    /\ DetectCyclesStart
    /\ UNCHANGED <<runVars, unitVars, graphVars, phase, runs, layerViolations, sizeCount,
                   godObjectCount, dir, scores>>

\* DetectCycles has returned to CircularDependencyRule.Check: the rest of
\* Check, LayerValidationRule.Check and the score (lines 97-127).
CalculateScoreReturn ==
    /\ pc = "CalculateScore"
    /\ DetectCyclesDone
    /\ pc' = "idle"
    /\ circularViolations' = CycleViolations(cycles)
    /\ layerViolations' \in LayerCheck(Graph, nodes)
    /\ score' = ComputeScore(Len(circularViolations'), Len(layerViolations'),
                             sizeCount, godObjectCount)
    /\ scores' = Append(scores, score')
    /\ DetectCyclesEnd
    /\ UNCHANGED <<runVars, unitVars, graphVars, phase, runs, sizeCount, godObjectCount, dir>>

\* -------------------------------------------------------------------- Next
Next ==
    \/ \E name \in NodeIds : AddNode(name)
    \/ \E from, to \in NodeIds : AddEdge(from, to)
    \/ DetectCyclesCall
    \/ RootLoop
    \/ DfsStep
    \/ DfsReturn
    \/ DetectCyclesReturn

Spec == Init /\ [][Next]_vars

\* --------------------------------------------- DetectCycles runs to its end
\* DetectCycles is one sequential function: once called, its next step (an
\* iteration of the root loop, an iteration of a successor loop, a return
\* of dfs, its own return) is eventually taken.
DetectCyclesStep ==
    \/ RootLoop
    \/ DfsStep
    \/ DfsReturn
    \/ DetectCyclesReturn

\* The first call of DetectCycles on the graph.
DetectCyclesOnce == runs = <<>> /\ DetectCyclesCall

\* A graph is built and DetectCycles is called on it once.
NextFair ==
    \/ \E name \in NodeIds : AddNode(name)
    \/ \E from, to \in NodeIds : AddEdge(from, to)
    \/ DetectCyclesOnce
    \/ DetectCyclesStep

SpecFair == Init /\ [][NextFair]_vars /\ WF_vars(DetectCyclesStep)

\* ------------------------------------------------------- the scorer's runs
NextScore ==
    \/ \E name \in NodeIds : AddNode(name)
    \/ \E from, to \in NodeIds : AddEdge(from, to)
    \/ NewStructuralScorer
    \/ CalculateScoreCall
    \/ RootLoop
    \/ DfsStep
    \/ DfsReturn
    \/ CalculateScoreReturn

SpecScore == Init /\ [][NextScore]_vars

\* --------------------------------------------- the graphs of the test suite
\* The graph a sequence of AddEdge calls builds on g.
RECURSIVE BuildFrom(_, _)
BuildFrom(g, edges) ==
    IF edges = <<>> THEN g
    ELSE BuildFrom(AddEdgeOp(g, edges[1][1], edges[1][2]), Tail(edges))

\* All sequences of n distinct identifiers.
Distinct(n) ==
    {s \in [1..n -> AllIds] : \A i, j \in 1..n : s[i] = s[j] => i = j}

\* The calls building the ring s[1] -> s[2] -> ... -> s[n] -> s[1].
RingEdges(s) == [i \in 1..Len(s) |-> <<s[i], s[(i % Len(s)) + 1]>>]

\* The calls building the two 2-cycles s[1] <-> s[2] and s[3] <-> s[4].
TwoCycleEdges(s) == <<<<s[1], s[2]>>, <<s[2], s[1]>>, <<s[3], s[4]>>, <<s[4], s[3]>>>>

ShapeEdges ==
    {RingEdges(s) : s \in UNION {Distinct(n) : n \in 2..MaxRing}}
        \cup {TwoCycleEdges(s) : s \in Distinct(4)}

\* A ring or two disjoint 2-cycles has been built and is analysed with
\* DetectCycles.
InitShapes ==
    /\ \E edges \in ShapeEdges :
          LET g == BuildFrom(NewDependencyGraph, edges)
          IN  /\ nodes = g.nodes
              /\ adjacency = g.adjacency
              /\ edgesAdded = {edges[i] : i \in 1..Len(edges)}
    /\ lastCall = NoCall
    /\ phase = "frozen"
    /\ pc = "idle"
    /\ todo = {}
    /\ visited = {}
    /\ recStack = {}
    /\ path = <<>>
    /\ cycles = <<>>
    /\ stack = <<>>
    /\ runs = <<>>
    /\ circularViolations = <<>>
    /\ layerViolations = <<>>
    /\ sizeCount = 0
    /\ godObjectCount = 0
    /\ score = NewScore
    /\ dir = NoDir
    /\ scores = <<>>
    /\ UnitIdle
    /\ RunIdle

NextShapes ==
    \/ DetectCyclesCall
    \/ RootLoop
    \/ DfsStep
    \/ DfsReturn
    \/ DetectCyclesReturn

SpecShapes == InitShapes /\ [][NextShapes]_vars


\* ------------------------------------------------ detectLayer on its own
\* The path components detectLayer is run on, as their characters.
SegmentWords ==
    {<<>>,
     <<"a", "p", "i">>,
     <<"h", "a", "n", "d", "l", "e", "r">>,
     <<"s", "e", "r", "v", "i", "c", "e">>,
     <<"r", "e", "p", "o">>,
     <<"r", "e", "p", "o", "s", "i", "t", "o", "r", "y">>,
     <<"m", "y", "s", "e", "r", "v", "i", "c", "e">>,
     <<"h", "a", "n", "d", "l", "e", "r", ".", "g", "o">>,
     <<"u", "s", "e", "r", "_", "h", "a", "n", "d", "l", "e", "r", ".", "g", "o">>}

Separators == {"/", "\\"}

\* The paths of n components.
RECURSIVE PathsOf(_)
PathsOf(n) ==
    IF n = 1 THEN SegmentWords
    ELSE {p \o <<sep>> \o w : p \in PathsOf(n - 1), sep \in Separators,
                               w \in SegmentWords}

Paths == UNION {PathsOf(n) : n \in 1..MaxSegments}

\* detectLayer is about to be called on some path.
InitLayer ==
    /\ InitSystem
    /\ packagePath \in Paths
    /\ detected = ""
    /\ counts = NoCounts
    /\ given = NilWeights
    /\ weights = NilWeights

\* The call detectLayer(packagePath).
DetectLayer ==
    /\ detected = ""
    /\ detected' = detectLayer(packagePath)
    /\ UNCHANGED <<runVars, graphVars, phase, pc, dfsVars, runs, scorerVars, scores,
                   packagePath, counts, given, weights>>

NextLayer == DetectLayer

SpecLayer == InitLayer /\ [][NextLayer]_vars

\* ---------------------------------------- the score of given violation counts
\* The rules hold any numbers of violations when CalculateScore reads them.
InitCounts ==
    /\ InitSystem
    /\ packagePath = <<>>
    /\ detected = ""
    /\ counts \in [circular : 0..MaxCount, layer : 0..MaxCount,
                   size : 0..MaxCount, godObject : 0..MaxCount]
    /\ given = NilWeights
    /\ weights = NilWeights

\* CalculateScore, lines 98-127, on rules holding these numbers of violations.
ScoreCounts ==
    /\ scores = <<>>
    /\ score' = ComputeScore(counts.circular, counts.layer, counts.size,
                             counts.godObject)
    /\ scores' = Append(scores, score')
    /\ UNCHANGED <<runVars, graphVars, phase, pc, dfsVars, runs, circularViolations,
                   layerViolations, sizeCount, godObjectCount, dir, unitVars>>

NextCounts == ScoreCounts

SpecCounts == InitCounts /\ [][NextCounts]_vars

\* ------------------------------------------------- the score of one 2-cycle
\* The graph g after AddNode of every identifier of S.
RECURSIVE WithNodes(_, _)
WithNodes(g, S) ==
    IF S = {} THEN g
    ELSE LET n == CHOOSE m \in S : TRUE
         IN  WithNodes(AddNodeOp(g, n), S \ {n})

\* The edges x -> y and y -> x have been added, any other identifiers have
\* been added as nodes without edges, and the graph is given to a scorer.
InitTwoCycle ==
    /\ \E s \in Distinct(2), extra \in SUBSET AllIds :
          LET g == WithNodes(BuildFrom(NewDependencyGraph, RingEdges(s)), extra)
          IN  /\ nodes = g.nodes
              /\ adjacency = g.adjacency
              /\ edgesAdded = {<<s[1], s[2]>>, <<s[2], s[1]>>}
    /\ lastCall = NoCall
    /\ phase = "frozen"
    /\ pc = "idle"
    /\ todo = {}
    /\ visited = {}
    /\ recStack = {}
    /\ path = <<>>
    /\ cycles = <<>>
    /\ stack = <<>>
    /\ runs = <<>>
    /\ circularViolations = <<>>
    /\ layerViolations = <<>>
    /\ sizeCount = 0
    /\ godObjectCount = 0
    /\ score = NewScore
    /\ dir = NoDir
    /\ scores = <<>>
    /\ UnitIdle
    /\ RunIdle

NextTwoCycle ==
    \/ NewStructuralScorer
    \/ CalculateScoreCall
    \/ RootLoop
    \/ DfsStep
    \/ DfsReturn
    \/ CalculateScoreReturn

SpecTwoCycle == InitTwoCycle /\ [][NextTwoCycle]_vars

\* ------------------------------------ scoring.go: the scorer given weights
\* scoring.go, lines 26-32.
DefaultScoringWeights ==
    [present |-> TRUE, CircularDependencyPenalty |-> CircularDependencyPenalty,
     LayerViolationPenalty |-> LayerViolationPenalty,
     GodObjectPenalty |-> GodObjectPenalty]

\* The penalties a caller writes into a ScoringWeights.
WeightValues == {0, LayerViolationPenalty, CircularDependencyPenalty}

\* The weights arguments: nil, or a ScoringWeights with any of these penalties.
WeightsArguments ==
    {NilWeights} \cup
    [present : {TRUE}, CircularDependencyPenalty : WeightValues,
     LayerViolationPenalty : WeightValues, GodObjectPenalty : WeightValues]

\* scoring.go, lines 74-98: the score of the counts under the weights w (this
\* version has no size rule).
ComputeScoreWeights(w, circular, layer, godObject) ==
    LET circularPenalty == circular * w.CircularDependencyPenalty
        layerPenalty == layer * w.LayerViolationPenalty
        godObjectPenalty == godObject * w.GodObjectPenalty
        totalPenalty == circularPenalty + layerPenalty + godObjectPenalty
        total == MaxScore - totalPenalty
    IN  [TotalScore |-> IF total < 0 THEN 0 ELSE total,
         CircularPenalty |-> circularPenalty,
         LayerPenalty |-> layerPenalty,
         SizePenalty |-> 0,
         GodObjectPenalty |-> godObjectPenalty,
         ViolationCount |-> circular + layer + godObject,
         CircularCount |-> circular,
         LayerCount |-> layer,
         SizeCount |-> 0,
         GodObjectCount |-> godObject,
         MaxScore |-> MaxScore]

\* A caller is about to build a scorer with some weights argument; the rules
\* will hold any numbers of violations.
InitWeights ==
    /\ InitSystem
    /\ packagePath = <<>>
    /\ detected = ""
    /\ counts \in [circular : 0..MaxCount, layer : 0..MaxCount, size : {0},
                   godObject : 0..MaxCount]
    /\ given \in WeightsArguments
    /\ weights = NilWeights

\* scoring.go, lines 44-65: NewStructuralScorer(graph, weights, dirPath).
NewStructuralScorerWeights ==
    /\ phase = "build"
    /\ phase' = "scorer"
    /\ weights' = IF ~given.present THEN DefaultScoringWeights ELSE given
    /\ score' = NewScore
    /\ UNCHANGED <<runVars, graphVars, pc, dfsVars, runs, circularViolations,
                   layerViolations, sizeCount, godObjectCount, dir, scores,
                   packagePath, detected, counts, given>>

\* scoring.go, lines 68-101: CalculateScore on rules holding these numbers of
\* violations.
CalculateScoreWeights ==
    /\ phase = "scorer"
    /\ scores = <<>>
    /\ score' = ComputeScoreWeights(weights, counts.circular, counts.layer,
                                    counts.godObject)
    /\ scores' = Append(scores, score')
    /\ UNCHANGED <<runVars, graphVars, phase, pc, dfsVars, runs, circularViolations,
                   layerViolations, sizeCount, godObjectCount, dir, unitVars>>

NextWeights ==
    \/ NewStructuralScorerWeights
    \/ CalculateScoreWeights

SpecWeights == InitWeights /\ [][NextWeights]_vars

\* --------------------------------------------------- the read operations
\* A GetDependencies that creates the successor set it is asked for.
GetDependenciesCallCreating(name) ==
    /\ pc = "idle"
    /\ adjacency' = IF name \in DOMAIN adjacency THEN adjacency
                    ELSE [n \in DOMAIN adjacency \cup {name} |->
                             IF n = name THEN {} ELSE adjacency[n]]
    /\ \E deps \in GetDependencies(Graph, name) :
          lastCall' = [op |-> "GetDependencies", name |-> name,
                       before |-> Graph, result |-> deps]
    /\ UNCHANGED <<runVars, nodes, edgesAdded, phase, pc, dfsVars, runs, scorerVars,
                   scores, unitVars>>

\* A caller reads the successors of name, a node or not (lines 51-63).
GetDependenciesCall(name) ==
    /\ pc = "idle"
    /\ \E deps \in GetDependencies(Graph, name) :
          lastCall' = [op |-> "GetDependencies", name |-> name,
                       before |-> Graph, result |-> deps]
    /\ UNCHANGED <<runVars, nodes, adjacency, edgesAdded, phase, pc, dfsVars, runs,
                   scorerVars, scores, unitVars>>

\* Lines 66-72.
GetAllNodesCall ==
    /\ pc = "idle"
    /\ \E all \in GetAllNodes(Graph) :
          lastCall' = [op |-> "GetAllNodes", before |-> Graph, result |-> all]
    /\ UNCHANGED <<runVars, nodes, adjacency, edgesAdded, phase, pc, dfsVars, runs,
                   scorerVars, scores, unitVars>>

\* Lines 75-77.
GetNodeCountCall ==
    /\ pc = "idle"
    /\ lastCall' = [op |-> "GetNodeCount", before |-> Graph,
                    result |-> GetNodeCount(Graph)]
    /\ UNCHANGED <<runVars, nodes, adjacency, edgesAdded, phase, pc, dfsVars, runs,
                   scorerVars, scores, unitVars>>

\* Lines 80-86.
GetEdgeCountCall ==
    /\ pc = "idle"
    /\ lastCall' = [op |-> "GetEdgeCount", before |-> Graph,
                    result |-> GetEdgeCount(Graph)]
    /\ UNCHANGED <<runVars, nodes, adjacency, edgesAdded, phase, pc, dfsVars, runs,
                   scorerVars, scores, unitVars>>

\* The identifiers the graph that is read is built from.
ReadIds == {"handler/h", "service/s"}

\* Building, reading and analysing one graph; GetDependencies is also asked
\* for an identifier that is never a node.
NextRead ==
    \/ \E name \in ReadIds : AddNode(name)
    \/ \E from, to \in ReadIds : AddEdge(from, to)
    \/ \E name \in NodeIds : GetDependenciesCall(name)
    \/ GetAllNodesCall
    \/ GetNodeCountCall
    \/ GetEdgeCountCall
    \/ DetectCyclesCall
    \/ NewStructuralScorer
    \/ CalculateScoreCall
    \/ RootLoop
    \/ DfsStep
    \/ DfsReturn
    \/ DetectCyclesReturn
    \/ CalculateScoreReturn

SpecRead == Init /\ [][NextRead]_vars

\* ------------------------------------------- repeated calls on one scorer
\* The one scorer of a run is built (main.go builds a single scorer).
NewStructuralScorerOnce ==
    /\ phase # "scorer"
    /\ NewStructuralScorer

NextOneScorer ==
    \/ \E name \in NodeIds : AddNode(name)
    \/ \E from, to \in NodeIds : AddEdge(from, to)
    \/ NewStructuralScorerOnce
    \/ CalculateScoreCall
    \/ RootLoop
    \/ DfsStep
    \/ DfsReturn
    \/ CalculateScoreReturn

SpecOneScorer == Init /\ [][NextOneScorer]_vars

\* ----------------------------------------------------------- ConfigLoader
\* getDefaultConfig, lines 521-540.
getDefaultConfig ==
    [Size |-> [present |-> TRUE, MaxFileLines |-> 500, MaxFunctionLines |-> 80],
     GodObject |-> [present |-> TRUE, MaxFields |-> 15, MaxMethods |-> 10],
     Rules |-> [present |-> TRUE, EnableSizeRule |-> "true",
                EnableGodObjectRule |-> "true"]]

\* The merge that takes a flag set to false for an unset one.
mergeWithDefaultsFalseIsUnset(cfg) ==
    LET defaults == getDefaultConfig
    IN  [Size |->
            IF ~cfg.Size.present
            THEN defaults.Size
            ELSE [present |-> TRUE,
                  MaxFileLines |->
                      IF cfg.Size.MaxFileLines = 0
                      THEN defaults.Size.MaxFileLines
                      ELSE cfg.Size.MaxFileLines,
                  MaxFunctionLines |->
                      IF cfg.Size.MaxFunctionLines = 0
                      THEN defaults.Size.MaxFunctionLines
                      ELSE cfg.Size.MaxFunctionLines],
         GodObject |->
            IF ~cfg.GodObject.present
            THEN defaults.GodObject
            ELSE [present |-> TRUE,
                  MaxFields |->
                      IF cfg.GodObject.MaxFields = 0
                      THEN defaults.GodObject.MaxFields
                      ELSE cfg.GodObject.MaxFields,
                  MaxMethods |->
                      IF cfg.GodObject.MaxMethods = 0
                      THEN defaults.GodObject.MaxMethods
                      ELSE cfg.GodObject.MaxMethods],
         Rules |->
            IF ~cfg.Rules.present
            THEN defaults.Rules
            ELSE [present |-> TRUE,
                  EnableSizeRule |->
                      IF cfg.Rules.EnableSizeRule # "true"
                      THEN defaults.Rules.EnableSizeRule
                      ELSE cfg.Rules.EnableSizeRule,
                  EnableGodObjectRule |->
                      IF cfg.Rules.EnableGodObjectRule # "true"
                      THEN defaults.Rules.EnableGodObjectRule
                      ELSE cfg.Rules.EnableGodObjectRule]]

\* mergeWithDefaults, lines 543-583: the Config cfg points to when the
\* function returns.
mergeWithDefaults(cfg) ==
    LET defaults == getDefaultConfig
    IN  [Size |->
            IF ~cfg.Size.present
            THEN defaults.Size
            ELSE [present |-> TRUE,
                  MaxFileLines |->
                      IF cfg.Size.MaxFileLines = 0
                      THEN defaults.Size.MaxFileLines
                      ELSE cfg.Size.MaxFileLines,
                  MaxFunctionLines |->
                      IF cfg.Size.MaxFunctionLines = 0
                      THEN defaults.Size.MaxFunctionLines
                      ELSE cfg.Size.MaxFunctionLines],
         GodObject |->
            IF ~cfg.GodObject.present
            THEN defaults.GodObject
            ELSE [present |-> TRUE,
                  MaxFields |->
                      IF cfg.GodObject.MaxFields = 0
                      THEN defaults.GodObject.MaxFields
                      ELSE cfg.GodObject.MaxFields,
                  MaxMethods |->
                      IF cfg.GodObject.MaxMethods = 0
                      THEN defaults.GodObject.MaxMethods
                      ELSE cfg.GodObject.MaxMethods],
         Rules |->
            IF ~cfg.Rules.present
            THEN defaults.Rules
            ELSE [present |-> TRUE,
                  EnableSizeRule |->
                      IF cfg.Rules.EnableSizeRule = "nil"
                      THEN defaults.Rules.EnableSizeRule
                      ELSE cfg.Rules.EnableSizeRule,
                  EnableGodObjectRule |->
                      IF cfg.Rules.EnableGodObjectRule = "nil"
                      THEN defaults.Rules.EnableGodObjectRule
                      ELSE cfg.Rules.EnableGodObjectRule]]

\* A *bool of a config file.
FlagValues == {"nil", "true", "false"}

\* The Configs a YAML file parses to here: a section is absent (nil, its
\* fields then zero) or present, a threshold absent or zero, negative, small
\* or the default of its field.
ParsedConfigs ==
    LET sizes == {NoConfig.Size} \cup
                 [present : {TRUE}, MaxFileLines : {0, -1, 7, 500},
                  MaxFunctionLines : {0, 7, 80}]
        godObjects == {NoConfig.GodObject} \cup
                      [present : {TRUE}, MaxFields : {0, 7, 15},
                       MaxMethods : {0, -1, 10}]
        rules == {NoConfig.Rules} \cup
                 [present : {TRUE}, EnableSizeRule : FlagValues,
                  EnableGodObjectRule : FlagValues]
    IN  [Size : sizes, GodObject : godObjects, Rules : rules]

\* What Load finds at configPath.
ConfigFiles ==
    [file : {"missing", "unreadable", "invalid"}, cfg : {NoConfig}]
        \cup [file : {"parsed"}, cfg : ParsedConfigs]

\* A loader has been made for a config file; nothing is loaded.
InitConfig ==
    /\ InitCore
    /\ UnitIdle
    /\ parsed \in ConfigFiles
    /\ config = NoConfig
    /\ violations = NoViolations
    /\ report = NoReport
    /\ exitCode = -1
    /\ historyFile = <<>>
    /\ history = <<>>
    /\ trend = NoTrend
    /\ summaries = <<>>
    /\ layerPc = "idle"
    /\ layerTodo = <<>>

\* The other variables of the analyze command and of the layer pass.
afterConfigVars == <<violations, report, exitCode, historyFile, history, trend,
                     summaries, layerPc, layerTodo>>

\* A call of mergeWithDefaults on the parsed Config, or on a Config it has
\* already merged: cfg is changed in place and returned.
MergeWithDefaults ==
    /\ parsed.file = "parsed"
    /\ config' = mergeWithDefaults(parsed.cfg)
    /\ parsed' = [parsed EXCEPT !.cfg = config']
    /\ UNCHANGED <<afterConfigVars, unitVars, graphVars, phase, pc, dfsVars, runs,
                   scorerVars, scores>>

\* Load, lines 491-513, and its caller loadConfiguration (main.go lines
\* 160-175), which takes the defaults when Load fails.
LoadConfiguration ==
    /\ config = NoConfig
    /\ config' = CASE parsed.file = "missing" -> getDefaultConfig
                   [] parsed.file = "parsed" -> mergeWithDefaults(parsed.cfg)
                   [] OTHER -> getDefaultConfig
    /\ parsed' = IF parsed.file = "parsed"
                 THEN [parsed EXCEPT !.cfg = config']
                 ELSE parsed
    /\ UNCHANGED <<afterConfigVars, unitVars, graphVars, phase, pc, dfsVars, runs,
                   scorerVars, scores>>

NextConfig ==
    \/ MergeWithDefaults
    \/ LoadConfiguration

SpecConfig == InitConfig /\ [][NextConfig]_vars

\* ---------------------------------------------------------- TrendAnalyzer
\* A HistoryEntry is [Timestamp, Score].  The clock reading of an entry is
\* the one of the entry before it or the next one.  Scores are whole
\* numbers here, which JSON and "%.1f" write and read back exactly.

\* LoadHistory, lines 33-56, for a file that is missing (<<>>) or holds the
\* entries a run saved.
LoadHistoryOp(file) == file

\* AppendScore, lines 59-78: the history with the new entry.
AppendScoreOp(h, newScore, timestamp) ==
    Append(h, [Timestamp |-> timestamp, Score |-> newScore])

\* time.Now() of line 68: not before the time of the last entry.
Timestamps(h) ==
    LET last == IF h = <<>> THEN 0 ELSE h[Len(h)].Timestamp
    IN  {last, last + 1}

\* The previous score taken one entry earlier, as the comment of line 99
\* has it.
GetPreviousScoreSecondToLast(h) ==
    IF Len(h) < 2
    THEN [score |-> 0, ok |-> FALSE]
    ELSE [score |-> h[Len(h) - 1].Score, ok |-> TRUE]

\* GetPreviousScore, lines 94-101.
GetPreviousScore(h) ==
    IF Len(h) < 2
    THEN [score |-> 0, ok |-> FALSE]
    ELSE [score |-> h[Len(h)].Score, ok |-> TRUE]

\* CalculateDelta, lines 113-129.
CalculateDelta(h, currentScore) ==
    LET prev == GetPreviousScore(h)
        delta == currentScore - prev.score
    IN  IF ~prev.ok
        THEN [delta |-> 0, trend |-> "no previous data", hasPrevious |-> FALSE]
        ELSE [delta |-> delta,
              trend |-> IF delta > 0 THEN "increased"
                        ELSE IF delta < 0 THEN "decreased"
                        ELSE "unchanged",
              hasPrevious |-> TRUE]

\* GetTrendSummary, lines 131-146: the numbers its text gives, all 0 in
\* "Current Score: No previous data available".
GetTrendSummary(h, currentScore) ==
    LET d == CalculateDelta(h, currentScore)
    IN  IF ~d.hasPrevious
        THEN [hasPrevious |-> FALSE, Current |-> 0, Previous |-> 0,
              Delta |-> 0, trend |-> ""]
        ELSE [hasPrevious |-> TRUE, Current |-> currentScore,
              Previous |-> GetPreviousScore(h).score,
              Delta |-> d.delta, trend |-> d.trend]

\* The total scores analyses give here.
TrendScores == {70, 90, 100}

\* The other variables of the analyze command and of the layer pass.
notTrendVars == <<parsed, config, violations, report, exitCode, layerPc, layerTodo>>

\* A call of AppendScore: the entry is appended and the history saved.
AppendScore(currentScore) ==
    /\ Len(history) < MaxHistory
    /\ \E timestamp \in Timestamps(history) :
          history' = AppendScoreOp(history, currentScore, timestamp)
    /\ historyFile' = history'
    /\ UNCHANGED <<trend, summaries, notTrendVars, unitVars, graphVars, phase, pc,
                   dfsVars, runs, scorerVars, scores>>

\* A call of CalculateDelta.
CalculateDeltaCall(currentScore) ==
    /\ LET d == CalculateDelta(history, currentScore)
       IN  trend' = [called |-> TRUE, at |-> Len(history),
                     currentScore |-> currentScore, delta |-> d.delta,
                     trend |-> d.trend, hasPrevious |-> d.hasPrevious]
    /\ UNCHANGED <<historyFile, history, summaries, notTrendVars, unitVars, graphVars,
                   phase, pc, dfsVars, runs, scorerVars, scores>>

NextTrend ==
    \/ \E currentScore \in TrendScores : AppendScore(currentScore)
    \/ \E currentScore \in TrendScores : CalculateDeltaCall(currentScore)

\* NewTrendAnalyzer has returned, for a directory without history file.
SpecTrend == Init /\ [][NextTrend]_vars

\* handleTrendAnalysis of a verbose run, main.go lines 189-203: a new
\* analyzer loads the history, the summary is printed, the score is appended
\* and the history saved.
HandleTrendAnalysis(currentScore) ==
    /\ Len(historyFile) < MaxHistory
    /\ LET loaded == LoadHistoryOp(historyFile)
       IN  /\ summaries' = Append(summaries, GetTrendSummary(loaded, currentScore))
           /\ \E timestamp \in Timestamps(loaded) :
                 history' = AppendScoreOp(loaded, currentScore, timestamp)
    /\ historyFile' = history'
    /\ UNCHANGED <<trend, notTrendVars, unitVars, graphVars, phase, pc, dfsVars, runs,
                   scorerVars, scores>>

\* Successive analyze runs on one directory, as far as its history goes.
NextRuns == \E currentScore \in TrendScores : HandleTrendAnalysis(currentScore)

SpecRuns == Init /\ [][NextRuns]_vars

\* ------------------------------------------------------ the analyze command
\* The directories analysed: what the size rule and the god-object rule find
\* in them with the thresholds of the configuration.
Dirs == [path : {"repo"}, size : 0..MaxFindings, godObject : 0..MaxFindings]

\* The config files of the analysed directories: none, or one that gives
\* the rules section.
AnalyzeFiles ==
    {NoFile} \cup
    [file : {"parsed"},
     cfg : [Size : {NoConfig.Size}, GodObject : {NoConfig.GodObject},
            Rules : {NoConfig.Rules} \cup
                    [present : {TRUE}, EnableSizeRule : FlagValues,
                     EnableGodObjectRule : FlagValues]]]

\* runAnalyze has validated the path of a directory without history file;
\* buildDependencyGraph has made the empty graph.
InitAnalyze ==
    /\ nodes = NewDependencyGraph.nodes
    /\ adjacency = NewDependencyGraph.adjacency
    /\ edgesAdded = {}
    /\ lastCall = NoCall
    /\ phase = "build"
    /\ pc = "idle"
    /\ todo = {}
    /\ visited = {}
    /\ recStack = {}
    /\ path = <<>>
    /\ cycles = <<>>
    /\ stack = <<>>
    /\ runs = <<>>
    /\ circularViolations = <<>>
    /\ layerViolations = <<>>
    /\ sizeCount = 0
    /\ godObjectCount = 0
    /\ score = NewScore
    /\ dir \in Dirs
    /\ scores = <<>>
    /\ UnitIdle
    /\ parsed \in AnalyzeFiles
    /\ config = NoConfig
    /\ violations = NoViolations
    /\ report = NoReport
    /\ exitCode = -1
    /\ historyFile = <<>>
    /\ history = <<>>
    /\ trend = NoTrend
    /\ summaries = <<>>
    /\ layerPc = "idle"
    /\ layerTodo = <<>>

\* main.go lines 144-158, buildDependencyGraph: the graph is built before
\* the configuration is loaded.
AnalyzeAddNode(name) == config = NoConfig /\ AddNode(name)

AnalyzeAddEdge(from, to) == config = NoConfig /\ AddEdge(from, to)

\* main.go line 99: the scorer of the run, made once the configuration is
\* loaded, for the graph, the configuration and the directory.
AnalyzeNewStructuralScorer ==
    /\ config # NoConfig
    /\ phase # "scorer"
    /\ NewStructuralScorer

\* GenerateReport, reporter.go line 41 and the call of CalculateScore of
\* line 46, up to the call of DetectCycles: the violations the rules hold
\* are taken before the score is calculated.
GenerateReportCall ==
    /\ phase = "scorer"
    /\ pc = "idle"
    /\ ~report.made
    /\ violations' = [Circular |-> circularViolations,
                      Layer |-> layerViolations,
                      Size |-> sizeCount,
                      GodObject |-> godObjectCount]
    /\ pc' = "GenerateReport"
    /\ score' = NewScore
    /\ circularViolations' = <<>>
    /\ DetectCyclesStart
    /\ UNCHANGED <<parsed, config, report, exitCode, historyFile, history, trend,
                   summaries, layerPc, layerTodo, unitVars, graphVars, phase, runs,
                   layerViolations, sizeCount, godObjectCount, dir, scores>>

\* The report whose lists are those of v and whose score is s, reporter.go
\* lines 43-51.
StructuralReport(v, s) ==
    [made |-> TRUE,
     Score |-> s,
     Circular |-> v.Circular,
     Layer |-> v.Layer,
     Size |-> v.Size,
     HasViolations |-> Len(v.Circular) > 0 \/ Len(v.Layer) > 0 \/ v.Size > 0]

\* DetectCycles has returned: the rest of CalculateScore, and the report.
GenerateReportReturn ==
    /\ pc = "GenerateReport"
    /\ DetectCyclesDone
    /\ pc' = "idle"
    /\ circularViolations' = CycleViolations(cycles)
    /\ layerViolations' \in LayerCheck(Graph, nodes)
    /\ score' = ComputeScore(Len(circularViolations'), Len(layerViolations'),
                             sizeCount, godObjectCount)
    /\ scores' = Append(scores, score')
    /\ report' = StructuralReport(violations, score')
    /\ DetectCyclesEnd
    /\ UNCHANGED <<parsed, config, violations, exitCode, historyFile, history, trend,
                   summaries, layerPc, layerTodo, unitVars, graphVars, phase, runs,
                   sizeCount, godObjectCount, dir>>

\* main.go line 105: the trend analysis of the run.
AnalyzeTrend ==
    /\ report.made
    /\ summaries = <<>>
    /\ HandleTrendAnalysis(report.Score.TotalScore)

\* main.go lines 107-110: the exit code of the run.
AnalyzeExit ==
    /\ report.made
    /\ summaries # <<>>
    /\ exitCode = -1
    /\ exitCode' = IF report.HasViolations THEN 1 ELSE 0
    /\ UNCHANGED <<parsed, config, violations, report, historyFile, history, trend,
                   summaries, layerPc, layerTodo, unitVars, graphVars, phase, pc,
                   dfsVars, runs, scorerVars, scores>>

NextAnalyze ==
    \/ \E name \in ReadIds : AnalyzeAddNode(name)
    \/ \E from, to \in ReadIds : AnalyzeAddEdge(from, to)
    \/ LoadConfiguration
    \/ AnalyzeNewStructuralScorer
    \/ GenerateReportCall
    \/ RootLoop
    \/ DfsStep
    \/ DfsReturn
    \/ GenerateReportReturn
    \/ AnalyzeTrend
    \/ AnalyzeExit

SpecAnalyze == InitAnalyze /\ [][NextAnalyze]_vars

\* ------------------------------------------ the two graph passes interleaved
\* CalculateScore, lines 91-127, with the statements of its two graph passes
\* (circularRule.Check with DetectCycles, layerRule.Check) taken in any
\* interleaving; the order of the source, the circular pass wholly before
\* the layer pass, is one of them.  The score is computed by the statements
\* that follow both calls.

\* circularRule.Check is called (circular_rule.go lines 34-37).
CircularCheckCall ==
    /\ phase = "scorer"
    /\ pc = "idle"
    /\ scores = <<>>
    /\ pc' = "Check"
    /\ circularViolations' = <<>>
    /\ DetectCyclesStart
    /\ UNCHANGED <<runVars, unitVars, graphVars, phase, runs, layerViolations, score,
                   sizeCount, godObjectCount, dir, scores>>

\* DetectCycles has returned to circularRule.Check, which returns
\* (circular_rule.go lines 39-48).
CircularCheckReturn ==
    /\ pc = "Check"
    /\ DetectCyclesDone
    /\ pc' = "done"
    /\ circularViolations' = CycleViolations(cycles)
    /\ DetectCyclesEnd
    /\ UNCHANGED <<runVars, unitVars, graphVars, phase, runs, layerViolations, score,
                   sizeCount, godObjectCount, dir, scores>>

\* The other variables of the analyze command.
notLayerVars == <<parsed, config, violations, report, exitCode, historyFile, history,
                  trend, summaries>>

\* layerRule.Check is called: config_test.go lines 241-244, with the slice
\* GetAllNodes returns.
LayerCheckCall ==
    /\ phase = "scorer"
    /\ layerPc = "idle"
    /\ scores = <<>>
    /\ layerPc' = "Check"
    /\ layerViolations' = <<>>
    /\ layerTodo' \in GetAllNodes(Graph)
    /\ UNCHANGED <<notLayerVars, unitVars, graphVars, phase, pc, dfsVars, runs,
                   circularViolations, score, sizeCount, godObjectCount, dir, scores>>

\* One iteration of the loop over the nodes, config_test.go lines 245-261.
LayerCheckStep ==
    /\ layerPc = "Check"
    /\ layerTodo # <<>>
    /\ \E deps \in GetDependencies(Graph, Head(layerTodo)) :
          layerViolations' =
              layerViolations \o LayerViolationsAt(Head(layerTodo), deps)
    /\ layerTodo' = Tail(layerTodo)
    /\ UNCHANGED <<notLayerVars, layerPc, unitVars, graphVars, phase, pc, dfsVars, runs,
                   circularViolations, score, sizeCount, godObjectCount, dir, scores>>

\* layerRule.Check returns, config_test.go line 263.
LayerCheckReturn ==
    /\ layerPc = "Check"
    /\ layerTodo = <<>>
    /\ layerPc' = "done"
    /\ UNCHANGED <<notLayerVars, layerTodo, unitVars, graphVars, phase, pc, dfsVars,
                   runs, scorerVars, scores>>

\* The score computed as soon as circularRule.Check has returned, whether
\* layerRule.Check has or not.
JoinScoreEarly ==
    /\ pc = "done"
    /\ pc' = "idle"
    /\ score' = ComputeScore(Len(circularViolations), Len(layerViolations),
                             sizeCount, godObjectCount)
    /\ scores' = Append(scores, score')
    /\ UNCHANGED <<notLayerVars, layerPc, layerTodo, unitVars, graphVars, phase,
                   dfsVars, runs, circularViolations, layerViolations, sizeCount,
                   godObjectCount, dir>>

\* Both calls have returned: the counts are taken from the rules and the
\* score is computed (lines 98-127).
JoinScore ==
    /\ pc = "done"
    /\ layerPc = "done"
    /\ pc' = "idle"
    /\ layerPc' = "idle"
    /\ score' = ComputeScore(Len(circularViolations), Len(layerViolations),
                             sizeCount, godObjectCount)
    /\ scores' = Append(scores, score')
    /\ UNCHANGED <<notLayerVars, layerTodo, unitVars, graphVars, phase, dfsVars, runs,
                   circularViolations, layerViolations, sizeCount, godObjectCount,
                   dir>>

NextJoin ==
    \/ \E name \in NodeIds : AddNode(name)
    \/ \E from, to \in NodeIds : AddEdge(from, to)
    \/ NewStructuralScorerOnce
    \/ CircularCheckCall
    \/ RootLoop
    \/ DfsStep
    \/ DfsReturn
    \/ CircularCheckReturn
    \/ LayerCheckCall
    \/ LayerCheckStep
    \/ LayerCheckReturn
    \/ JoinScore

SpecJoin == Init /\ [][NextJoin]_vars

\* ============================================================== properties
\* ------------------------------------------------------- graph predicates
Range(s) == {s[i] : i \in DOMAIN s}

Edge(g, a, b) == a \in DOMAIN g.adjacency /\ b \in g.adjacency[a]

Successors(g, S) == UNION {g.adjacency[n] : n \in S \cap DOMAIN g.adjacency}

\* The nodes reachable from the set S in zero or more steps.
RECURSIVE Closure(_, _)
Closure(g, S) ==
    IF Successors(g, S) \subseteq S THEN S
    ELSE Closure(g, S \cup Successors(g, S))

\* The nodes reachable from n in one or more steps.
ReachablePlus(g, n) == Closure(g, Successors(g, {n}))

Acyclic(g) == \A n \in g.nodes \cup DOMAIN g.adjacency : n \notin ReachablePlus(g, n)

\* c is a closed walk of g: each node has an edge to the next, the last to the first.
IsCycleOf(g, c) ==
    /\ Len(c) >= 1
    /\ \A i \in 1..Len(c) : Edge(g, c[i], c[(i % Len(c)) + 1])

\* g is one directed ring over all its nodes.
IsRing(g) ==
    /\ DOMAIN g.adjacency = g.nodes
    /\ \A n \in g.nodes : Cardinality(g.adjacency[n]) = 1
    /\ \A n \in g.nodes : ReachablePlus(g, n) = g.nodes

\* g is the two 2-cycles a <-> b and c <-> d.
IsTwoCycles(g, a, b, c, d) ==
    /\ Cardinality({a, b, c, d}) = 4
    /\ g.nodes = {a, b, c, d}
    /\ DOMAIN g.adjacency = g.nodes
    /\ g.adjacency[a] = {b} /\ g.adjacency[b] = {a}
    /\ g.adjacency[c] = {d} /\ g.adjacency[d] = {c}

\* ------------------------------------------------------------------- C1
\* C1: after any sequence of AddNode and AddEdge calls, every node with a
\* successor set is in the node set and so is every successor.
C1_EdgeEndpointsAreNodes ==
    /\ DOMAIN adjacency \subseteq nodes
    /\ \A n \in DOMAIN adjacency : adjacency[n] \subseteq nodes

\* An AddEdge call has just created both of its endpoints.
C1_Witness ==
    /\ lastCall.op = "AddEdge"
    /\ lastCall.from # lastCall.to
    /\ lastCall.from \notin lastCall.before.nodes
    /\ lastCall.to \notin lastCall.before.nodes

\* ------------------------------------------------------------------- C2
\* C2: DetectCycles returns the same list of cycles (same cycles, same order,
\* same starting nodes) every time it is run on the same graph.
C2_SameCyclesEveryRun ==
    \A i, j \in DOMAIN runs : runs[i] = runs[j]

\* ------------------------------------------------------------------- C3
\* C3: repeated invocations of CalculateScore on the same graph yield identical
\* TotalScore, CircularCount and LayerCount.
C3_ScoreDeterministic ==
    \A i, j \in DOMAIN scores :
        /\ scores[i].TotalScore = scores[j].TotalScore
        /\ scores[i].CircularCount = scores[j].CircularCount
        /\ scores[i].LayerCount = scores[j].LayerCount

\* ------------------------------------------------------------------- C4
\* C4: on an acyclic graph (the empty graph and graphs without edges included)
\* DetectCycles finds no cycle and returns an empty list, in whatever order the
\* roots and the successors are visited.
C4_AcyclicNoCycles ==
    Acyclic(Graph) =>
        /\ cycles = <<>>
        /\ \A i \in DOMAIN runs : runs[i] = <<>>

\* DetectCycles has returned on an acyclic graph a -> b -> c with the forward
\* edge a -> c.
C4_Witness ==
    /\ Acyclic(Graph)
    /\ Len(runs) >= 1
    /\ \E a, b, c \in nodes :
          /\ Cardinality({a, b, c}) = 3
          /\ Edge(Graph, a, b) /\ Edge(Graph, b, c) /\ Edge(Graph, a, c)

\* ------------------------------------------------------------------- C5
\* C5: on a single directed ring over n >= 2 nodes DetectCycles returns exactly
\* one cycle, of length n, that contains every node of the ring, whichever
\* node the DFS starts from.
C5_RingOneCycle ==
    (IsRing(Graph) /\ Cardinality(nodes) >= 2) =>
        \A i \in DOMAIN runs :
            /\ Len(runs[i]) = 1
            /\ Len(runs[i][1]) = Cardinality(nodes)
            /\ Range(runs[i][1]) = nodes

\* DetectCycles has returned twice on a ring of four nodes, starting from
\* different nodes.
C5_Witness ==
    /\ IsRing(Graph)
    /\ Cardinality(nodes) = 4
    /\ Len(runs) = 2
    /\ runs[1][1][1] # runs[2][1][1]

\* ------------------------------------------------------------------- C6
\* C6: every cycle DetectCycles reports is a real cycle of the graph: a
\* non-empty sequence of nodes, each with an edge to the next and the last with
\* an edge to the first.
C6_CyclesAreReal ==
    /\ \A k \in DOMAIN cycles : IsCycleOf(Graph, cycles[k])
    /\ \A i \in DOMAIN runs : \A k \in DOMAIN runs[i] : IsCycleOf(Graph, runs[i][k])

\* DetectCycles has returned a cycle of two or more nodes that was cut out of
\* a longer path.
C6_Witness ==
    \E i \in DOMAIN runs : \E k \in DOMAIN runs[i] :
        /\ Len(runs[i][k]) >= 2
        /\ Range(runs[i][k]) # nodes

\* ------------------------------------------------------------------- C7
\* C7: after AddEdge(a, a) on an empty graph the node count is 1 and the edge
\* count is 1, and DetectCycles returns exactly one cycle, <<a>>.
C7_SelfLoop ==
    \A a \in NodeIds :
        LET g == AddEdgeOp(NewDependencyGraph, a, a)
        IN  /\ GetNodeCount(g) = 1
            /\ GetEdgeCount(g) = 1
            /\ Edge(g, a, a)
            /\ Graph = g => \A i \in DOMAIN runs : runs[i] = <<<<a>>>>

\* DetectCycles has returned on the graph AddEdge(a, a) builds from the empty
\* graph.
C7_Witness ==
    /\ Cardinality(nodes) = 1
    /\ edgesAdded = {<<n, n>> : n \in nodes}
    /\ Len(runs) >= 1

\* ------------------------------------------------------------------- C8
\* C8: on two node-disjoint 2-cycles a <-> b and c <-> d DetectCycles returns
\* at least two distinct cycles, one over {a, b} and one over {c, d}, for every
\* root and successor order.
C8_TwoDisjointCycles ==
    \A a, b, c, d \in nodes :
        IsTwoCycles(Graph, a, b, c, d) =>
            \A i \in DOMAIN runs :
                /\ Len(runs[i]) >= 2
                /\ \E k, l \in DOMAIN runs[i] :
                      /\ k # l
                      /\ runs[i][k] # runs[i][l]
                      /\ Range(runs[i][k]) = {a, b}
                      /\ Range(runs[i][l]) = {c, d}

\* DetectCycles has returned on two disjoint 2-cycles.
C8_Witness ==
    /\ \E a, b, c, d \in nodes : IsTwoCycles(Graph, a, b, c, d)
    /\ Len(runs) >= 1

\* ------------------------------------------------------------------- C9
\* C9: AddNode(id) for an id already in the graph leaves the node set, the node
\* count, the edge count and every successor set unchanged; after adding the
\* same node twice to an empty graph the node count is 1.
C9_AddNodeIdempotent ==
    (lastCall.op = "AddNode" /\ lastCall.name \in lastCall.before.nodes) =>
        /\ nodes = lastCall.before.nodes
        /\ adjacency = lastCall.before.adjacency
        /\ GetNodeCount(Graph) = GetNodeCount(lastCall.before)
        /\ GetEdgeCount(Graph) = GetEdgeCount(lastCall.before)
        /\ (lastCall.before.nodes = {lastCall.name} => GetNodeCount(Graph) = 1)

\* AddNode has been called for a node that already had outgoing edges.
C9_Witness ==
    /\ lastCall.op = "AddNode"
    /\ lastCall.name \in lastCall.before.nodes
    /\ lastCall.before.adjacency[lastCall.name] # {}

\* ------------------------------------------------------------------ C10
\* C10: GetEdgeCount is the number of distinct ordered pairs AddEdge has been
\* called with, which is the sum of the out-degrees; repeating a call leaves it
\* unchanged, and (from, to) and (to, from) count as two edges.
C10_EdgeCount ==
    /\ GetEdgeCount(Graph) = Cardinality(edgesAdded)
    /\ edgesAdded = {e \in nodes \X nodes : Edge(Graph, e[1], e[2])}
    /\ (lastCall.op = "AddEdge" /\ <<lastCall.from, lastCall.to>> \in lastCall.added) =>
           GetEdgeCount(Graph) = GetEdgeCount(lastCall.before)

\* AddEdge has been repeated with a pair whose reverse pair has been added too.
C10_Witness ==
    /\ lastCall.op = "AddEdge"
    /\ lastCall.from # lastCall.to
    /\ <<lastCall.from, lastCall.to>> \in lastCall.added
    /\ <<lastCall.to, lastCall.from>> \in lastCall.added
    /\ GetEdgeCount(Graph) = 2

\* ------------------------------------------------------------------ C11
\* C11: AddEdge(from, to) creates the endpoints that are missing: after the
\* call from and to are nodes, to is in every slice GetDependencies(from) can
\* return, and GetNodeCount has grown by the number of distinct endpoints that
\* were not nodes before (0, 1 or 2).
C11_AddEdgeCreatesEndpoints ==
    lastCall.op = "AddEdge" =>
        LET new == {lastCall.from, lastCall.to} \ lastCall.before.nodes
        IN  /\ lastCall.from \in nodes
            /\ lastCall.to \in nodes
            /\ \A deps \in GetDependencies(Graph, lastCall.from) :
                   lastCall.to \in Range(deps)
            /\ GetNodeCount(Graph) =
                   GetNodeCount(lastCall.before) + Cardinality(new)
            /\ Cardinality(new) \in 0..2

\* AddEdge has been called between a node of the graph and an identifier that
\* was not a node yet.
C11_Witness ==
    /\ lastCall.op = "AddEdge"
    /\ lastCall.from # lastCall.to
    /\ Cardinality({lastCall.from, lastCall.to} \ lastCall.before.nodes) = 1
    /\ GetNodeCount(Graph) = GetNodeCount(lastCall.before) + 1

\* ------------------------------------------------------------------ C12
\* The rank of the layer of each identifier: Handler 0, Service 1, Repo 2.
C12_Rank == [id \in NodeIds |->
                CASE id = "handler/h" -> 0
                  [] id = "service/s" -> 1
                  [] id = "repo/r" -> 2]

\* How many violations of the list vs have From a and To b.
C12_Flagged(vs, a, b) ==
    Cardinality({i \in DOMAIN vs : vs[i].From = a /\ vs[i].To = b})

\* C12: once LayerValidationRule.Check has run, its violation list holds exactly
\* one LayerViolation{From, To} for every edge (from, to) of the graph whose
\* target layer ranks below its source layer (Handler 0, Service 1, Repo 2) and
\* none for any other pair: repo -> service and service -> handler are flagged
\* once, handler -> service -> repo is not flagged, and of the two edges (x, y)
\* and (y, x) only the upward one is.
C12_OneViolationPerUpwardEdge ==
    score # NewScore =>
        \A a, b \in NodeIds :
            C12_Flagged(layerViolations, a, b) =
                IF Edge(Graph, a, b) /\ C12_Rank[b] < C12_Rank[a] THEN 1 ELSE 0

\* Check has run on a graph with the edges handler -> service, service -> repo,
\* repo -> service and service -> handler, and has flagged the last two.
C12_Witness ==
    /\ score # NewScore
    /\ edgesAdded = {<<"handler/h", "service/s">>, <<"service/s", "repo/r">>,
                     <<"repo/r", "service/s">>, <<"service/s", "handler/h">>}
    /\ Len(layerViolations) = 2
    /\ C12_Flagged(layerViolations, "repo/r", "service/s") = 1
    /\ C12_Flagged(layerViolations, "service/s", "handler/h") = 1

\* ------------------------------------------------------------------ C13
\* The components of the path p: the maximal runs of characters other than
\* '/' and '\'.
C13_Segments(p) ==
    LET sep(i) == p[i] = "/" \/ p[i] = "\\"
        starts == {i \in 1..(Len(p) + 1) : i = 1 \/ sep(i - 1)}
        end(i) == CHOOSE j \in (i - 1)..Len(p) :
                      /\ j = Len(p) \/ sep(j + 1)
                      /\ \A k \in i..j : ~sep(k)
    IN  {SubSeq(p, i, end(i)) : i \in starts}

\* C13: detectLayer returns handler if some whole component of the path is
\* "handler", otherwise service if some whole component is "service", otherwise
\* repo if some whole component is "repo", otherwise service; a keyword inside
\* a longer component does not count, and the position of the components does
\* not matter.
C13_DetectLayerBySegment ==
    detected # "" =>
        LET segs == C13_Segments(packagePath)
        IN  detected =
                IF <<"h", "a", "n", "d", "l", "e", "r">> \in segs THEN "handler"
                ELSE IF <<"s", "e", "r", "v", "i", "c", "e">> \in segs THEN "service"
                ELSE IF <<"r", "e", "p", "o">> \in segs THEN "repo"
                ELSE "service"

\* detectLayer has answered repo for repo\user_handler.go/myservice, whose
\* other components only contain the keywords handler and service.
C13_Witness ==
    /\ detected = "repo"
    /\ packagePath =
          <<"r", "e", "p", "o", "\\",
            "u", "s", "e", "r", "_", "h", "a", "n", "d", "l", "e", "r", ".", "g", "o",
            "/", "m", "y", "s", "e", "r", "v", "i", "c", "e">>

\* ------------------------------------------------------------------ C14
\* C14: the Score of the counts is computed category by category with the
\* default weights: CircularPenalty = 10 x CircularCount, LayerPenalty = 5 x
\* LayerCount, SizePenalty = 3 x SizeCount, GodObjectPenalty = 5 x
\* GodObjectCount, ViolationCount is the sum of the four counts, TotalScore is
\* max(0, 100 - the sum of the four penalties), and the penalty of a category
\* is the same whatever the counts of the other categories are.
C14_PenaltyFormula ==
    \A n \in DOMAIN scores :
        LET s == scores[n]
            total == 100 - (10 * counts.circular + 5 * counts.layer
                                + 3 * counts.size + 5 * counts.godObject)
        IN  /\ s.CircularCount = counts.circular
            /\ s.LayerCount = counts.layer
            /\ s.SizeCount = counts.size
            /\ s.GodObjectCount = counts.godObject
            /\ s.CircularPenalty = 10 * s.CircularCount
            /\ s.LayerPenalty = 5 * s.LayerCount
            /\ s.SizePenalty = 3 * s.SizeCount
            /\ s.GodObjectPenalty = 5 * s.GodObjectCount
            /\ s.ViolationCount = counts.circular + counts.layer + counts.size
                                      + counts.godObject
            /\ s.TotalScore = IF total > 0 THEN total ELSE 0
            /\ s.TotalScore = IF 100 - (s.CircularPenalty + s.LayerPenalty
                                   + s.SizePenalty + s.GodObjectPenalty) > 0
                              THEN 100 - (s.CircularPenalty + s.LayerPenalty
                                   + s.SizePenalty + s.GodObjectPenalty)
                              ELSE 0
            /\ \A k \in 0..MaxCount :
                  /\ ComputeScore(counts.circular, k, k, k).CircularPenalty
                         = s.CircularPenalty
                  /\ ComputeScore(k, counts.layer, k, k).LayerPenalty
                         = s.LayerPenalty
                  /\ ComputeScore(k, k, counts.size, k).SizePenalty
                         = s.SizePenalty
                  /\ ComputeScore(k, k, k, counts.godObject).GodObjectPenalty
                         = s.GodObjectPenalty

\* The score of 2 cycles, 3 layer violations, 4 size violations and 1 god
\* object has been computed: 100 - (20 + 15 + 12 + 5) = 48.
C14_Witness ==
    /\ Len(scores) = 1
    /\ counts = [circular |-> 2, layer |-> 3, size |-> 4, godObject |-> 1]
    /\ scores[1].TotalScore = 48
    /\ scores[1].ViolationCount = 10

\* ------------------------------------------------------------------ C15
\* C15: for all non-negative counts the TotalScore lies in 0..MaxScore with
\* MaxScore = 100; when the penalties add up to more than 100 it is exactly 0,
\* as it is for 11 circular violations.
C15_ScoreInRange ==
    \A n \in DOMAIN scores :
        LET s == scores[n]
        IN  /\ s.MaxScore = 100
            /\ s.TotalScore >= 0
            /\ s.TotalScore <= s.MaxScore
            /\ (10 * counts.circular + 5 * counts.layer + 3 * counts.size
                    + 5 * counts.godObject > 100) => s.TotalScore = 0
            /\ counts.circular = 11 => s.TotalScore = 0

\* The score of 11 circular violations and nothing else has been computed: 0.
C15_Witness ==
    /\ Len(scores) = 1
    /\ counts = [circular |-> 11, layer |-> 0, size |-> 0, godObject |-> 0]
    /\ scores[1].CircularPenalty = 110
    /\ scores[1].TotalScore = 0

\* ------------------------------------------------------------------ C16
\* The edges of the graph are x -> y and y -> x and nothing else.
C16_OneTwoCycle(x, y) ==
    /\ x # y
    /\ {e \in AllIds \X AllIds : Edge(Graph, e[1], e[2])} = {<<x, y>>, <<y, x>>}

\* C16 as stated: for any graph whose edges form exactly one 2-cycle, with the
\* default weights and no size or god-object violations, CalculateScore returns
\* CircularCount = 1, CircularPenalty = 10 and TotalScore = 90.
C16_TwoCycleScores90 ==
    \A x, y \in nodes :
        (C16_OneTwoCycle(x, y) /\ sizeCount = 0 /\ godObjectCount = 0) =>
            \A n \in DOMAIN scores :
                /\ scores[n].CircularCount = 1
                /\ scores[n].CircularPenalty = 10
                /\ scores[n].TotalScore = 90

\* C16, amended: for such a graph CalculateScore returns CircularCount = 1 and
\* CircularPenalty = 10; TotalScore is 90 when x and y are classified in the
\* same layer, and 85 with LayerCount = 1 and LayerPenalty = 5 when they are
\* not, one edge of the 2-cycle then being an upward import.
C16_TwoCycleScore ==
    \A x, y \in nodes :
        (C16_OneTwoCycle(x, y) /\ sizeCount = 0 /\ godObjectCount = 0) =>
            \A n \in DOMAIN scores :
                /\ scores[n].CircularCount = 1
                /\ scores[n].CircularPenalty = 10
                /\ LayerOf[x] = LayerOf[y] =>
                       /\ scores[n].LayerCount = 0
                       /\ scores[n].TotalScore = 90
                /\ LayerOf[x] # LayerOf[y] =>
                       /\ scores[n].LayerCount = 1
                       /\ scores[n].LayerPenalty = 5
                       /\ scores[n].TotalScore = 85

\* CalculateScore has returned 90 twice for the 2-cycle A <-> B in a graph
\* with a third node.
C16_Witness ==
    /\ C16_OneTwoCycle("A", "B")
    /\ Cardinality(nodes) = 3
    /\ Len(scores) = 2
    /\ scores[1].TotalScore = 90
    /\ scores[2].TotalScore = 90

\* ------------------------------------------------------------------ C17
\* C17: on a graph without edges (with any nodes, or none) the analysis ends
\* with empty results: DetectCycles collects no cycle, the circular and the
\* layer rule hold empty violation lists after Check, and CalculateScore,
\* there being no size or god-object violations, returns TotalScore = 100.
C17_NoEdgesNoFindings ==
    GetEdgeCount(Graph) = 0 =>
        /\ cycles = <<>>
        /\ LayerCheck(Graph, nodes) = {<<>>}
        /\ score # NewScore =>
               /\ circularViolations = <<>>
               /\ layerViolations = <<>>
               /\ score.ViolationCount = 0
        /\ \A n \in DOMAIN scores :
               (sizeCount = 0 /\ godObjectCount = 0) => scores[n].TotalScore = 100

\* CalculateScore has returned on the graph of three nodes without edges.
C17_Witness ==
    /\ nodes = NodeIds
    /\ GetEdgeCount(Graph) = 0
    /\ Len(scores) >= 1
    /\ score # NewScore
    /\ score.TotalScore = 100

\* ------------------------------------------------------------------ C18
\* The penalty the claim expects for a field: the documented default when the
\* weights are absent or the field is zero, the given value otherwise.
C18_Effective(field, default) ==
    IF ~given.present \/ given[field] = 0 THEN default ELSE given[field]

\* C18: when the weights given to the scorer are absent or have a zero-valued
\* penalty field, the score is computed with the documented default of that
\* field (circular 10, layer 5, god object 5) and not with zero.
C18_DefaultsForMissingWeights ==
    \A n \in DOMAIN scores :
        LET circularPenalty ==
                counts.circular * C18_Effective("CircularDependencyPenalty", 10)
            layerPenalty ==
                counts.layer * C18_Effective("LayerViolationPenalty", 5)
            godObjectPenalty ==
                counts.godObject * C18_Effective("GodObjectPenalty", 5)
            total == 100 - (circularPenalty + layerPenalty + godObjectPenalty)
        IN  /\ scores[n].CircularPenalty = circularPenalty
            /\ scores[n].LayerPenalty = layerPenalty
            /\ scores[n].GodObjectPenalty = godObjectPenalty
            /\ scores[n].TotalScore = IF total < 0 THEN 0 ELSE total

\* ------------------------------------------------------------------ C19
\* A step of one of the analysis operations: GetDependencies (for a node or
\* any other identifier), GetAllNodes, GetNodeCount, GetEdgeCount, DetectCycles,
\* and CalculateScore with the two rules' Check it runs.
C19_AnalysisStep ==
    \/ \E name \in NodeIds : GetDependenciesCall(name)
    \/ GetAllNodesCall
    \/ GetNodeCountCall
    \/ GetEdgeCountCall
    \/ DetectCyclesCall
    \/ CalculateScoreCall
    \/ RootLoop
    \/ DfsStep
    \/ DfsReturn
    \/ DetectCyclesReturn
    \/ CalculateScoreReturn

\* C19: the analysis operations are read-only on the graph: every step of
\* DetectCycles, GetDependencies (also for an identifier that is not a node),
\* GetAllNodes, GetNodeCount, GetEdgeCount, the two rules' Check and
\* CalculateScore leaves the node set and the adjacency relation as they were.
C19_AnalysisIsReadOnly ==
    [][C19_AnalysisStep => (nodes' = nodes /\ adjacency' = adjacency)]_vars

\* GetDependencies has been called for an identifier that is not a node, after
\* DetectCycles and CalculateScore have run on a graph with a cycle: the
\* graph is the one the call found.
C19_Witness ==
    /\ lastCall.op = "GetDependencies"
    /\ lastCall.name \notin nodes
    /\ lastCall.result = <<>>
    /\ lastCall.before = Graph
    /\ Len(runs) = 1 /\ runs[1] # <<>>
    /\ Len(scores) = 1

\* ------------------------------------------------------------------ C20
\* C20: no state bleeds across the calls on one scorer and its rules, the graph
\* being unchanged: after every CalculateScore the rules' Violations() hold the
\* findings of that call only (as many layer violations as after the first
\* call), and every returned Score has the counts and penalties of the first.
C20_NoStateBleed ==
    /\ score # NewScore =>
           /\ Len(circularViolations) = score.CircularCount
           /\ Len(layerViolations) = score.LayerCount
           /\ Len(layerViolations) = scores[1].LayerCount
    /\ \A n \in DOMAIN scores :
           /\ scores[n].CircularCount = scores[1].CircularCount
           /\ scores[n].LayerCount = scores[1].LayerCount
           /\ scores[n].SizeCount = scores[1].SizeCount
           /\ scores[n].GodObjectCount = scores[1].GodObjectCount
           /\ scores[n].CircularPenalty = scores[1].CircularPenalty
           /\ scores[n].LayerPenalty = scores[1].LayerPenalty
           /\ scores[n].SizePenalty = scores[1].SizePenalty
           /\ scores[n].GodObjectPenalty = scores[1].GodObjectPenalty

\* ------------------------------------------------------------------- C28
\* No node occurs twice in s.
C28_NoRepeat(s) == \A i, j \in 1..Len(s) : s[i] = s[j] => i = j

\* C28: while DetectCycles runs, path holds exactly the nodes whose recStack
\* flag is set, no node twice, every one of them visited, and consecutive
\* entries of path are joined by an edge of the graph; when the root loop is
\* over the path is empty and no node is flagged; so every cycle reported,
\* in the running pass or in a finished one, has pairwise distinct nodes and
\* is no longer than the number of nodes.
C28_DfsBookkeeping ==
    /\ Range(path) = recStack
    /\ C28_NoRepeat(path)
    /\ recStack \subseteq visited
    /\ \A i \in 1..(Len(path) - 1) : Edge(Graph, path[i], path[i + 1])
    /\ DetectCyclesDone => (path = <<>> /\ recStack = {})
    /\ \A cs \in Range(runs) \cup {cycles} :
          \A k \in 1..Len(cs) :
              /\ C28_NoRepeat(cs[k])
              /\ Len(cs[k]) <= Cardinality(nodes)

\* A pass is two calls deep and has reported a cycle through every node.
C28_Witness ==
    /\ pc = "DetectCycles"
    /\ Len(path) >= 2
    /\ \E k \in 1..Len(cycles) : Len(cycles[k]) = Cardinality(NodeIds)

\* ------------------------------------------------------------------- C26
\* The successor loop of the running dfs is at a back edge: its next successor
\* is on the recursion stack.
C26_AtBackEdge ==
    /\ stack # <<>>
    /\ stack[Len(stack)].deps # <<>>
    /\ Head(stack[Len(stack)].deps) \in recStack

\* C26: whatever order the roots and the successors are taken in, a pass of
\* DetectCycles over a graph that has a directed cycle (a self-loop is one)
\* ends with a non-empty list, and the list grows by exactly one cycle at
\* each back edge the dfs meets and at no other step.
C26_CompleteForExistence ==
    /\ [](~Acyclic(Graph) =>
            /\ \A i \in 1..Len(runs) : runs[i] # <<>>
            /\ (pc = "DetectCycles" /\ DetectCyclesDone) => cycles # <<>>)
    /\ [][(pc = "DetectCycles" /\ pc' = "DetectCycles") =>
            Len(cycles') = Len(cycles) + (IF C26_AtBackEdge THEN 1 ELSE 0)]_vars

\* A pass over a graph with a cycle has reported a cycle and stands at
\* another back edge.
C26_Witness ==
    /\ ~Acyclic(Graph)
    /\ pc = "DetectCycles"
    /\ cycles # <<>>
    /\ C26_AtBackEdge

\* ------------------------------------------------------------------- C27
\* C27: every pass of DetectCycles comes to its end; during a pass the set
\* of visited nodes changes only when dfs is entered, which happens only
\* for a node that was not visited and marks exactly that node, so no node
\* is entered twice; and when the root loop is over every node is visited.
C27_TerminatesEachNodeOnce ==
    /\ (pc = "DetectCycles") ~> (pc = "idle")
    /\ []((pc = "DetectCycles" /\ DetectCyclesDone) => visited = nodes)
    /\ [][(pc = "DetectCycles" /\ pc' = "DetectCycles") =>
            IF Len(path') > Len(path)
            THEN /\ path'[Len(path')] \notin visited
                 /\ visited' = visited \cup {path'[Len(path')]}
            ELSE visited' = visited]_vars

\* The dfs stands at a successor that is visited and no longer on the
\* stack, in a graph of three nodes.
C27_Witness ==
    /\ pc = "DetectCycles"
    /\ Cardinality(nodes) = Cardinality(NodeIds)
    /\ stack # <<>>
    /\ stack[Len(stack)].deps # <<>>
    /\ Head(stack[Len(stack)].deps) \in visited \ recStack

\* ------------------------------------------------------------------- C24
\* The value a threshold has after the merge.
C24_Threshold(section, value, default) ==
    IF ~section.present \/ value = 0 THEN default ELSE value

\* The value a flag has after the merge.
C24_Flag(section, value, default) ==
    IF ~section.present \/ value = "nil" THEN default ELSE value

\* C24: a call of mergeWithDefaults fills exactly the missing pieces: a nil
\* section, a zero threshold and an unset flag take the default (500, 80,
\* 15, 10, true) and every other value is kept as given; and merging a
\* merged Config gives that Config again.
C24_MergeFillsTheMissing ==
    /\ [][(parsed.file = "parsed" /\ config' # config) =>
            LET cfg == parsed.cfg
            IN  /\ config'.Size.present /\ config'.GodObject.present
                /\ config'.Rules.present
                /\ config'.Size.MaxFileLines =
                       C24_Threshold(cfg.Size, cfg.Size.MaxFileLines, 500)
                /\ config'.Size.MaxFunctionLines =
                       C24_Threshold(cfg.Size, cfg.Size.MaxFunctionLines, 80)
                /\ config'.GodObject.MaxFields =
                       C24_Threshold(cfg.GodObject, cfg.GodObject.MaxFields, 15)
                /\ config'.GodObject.MaxMethods =
                       C24_Threshold(cfg.GodObject, cfg.GodObject.MaxMethods, 10)
                /\ config'.Rules.EnableSizeRule =
                       C24_Flag(cfg.Rules, cfg.Rules.EnableSizeRule, "true")
                /\ config'.Rules.EnableGodObjectRule =
                       C24_Flag(cfg.Rules, cfg.Rules.EnableGodObjectRule, "true")]_vars
    /\ [](config # NoConfig => mergeWithDefaults(config) = config)

\* A Config has been merged that was given with one threshold of a section
\* and not the other, without god-object section, and with one flag false
\* and the other unset.
C24_Witness ==
    /\ parsed.file = "parsed"
    /\ config.Size.MaxFileLines = 7
    /\ config.Size.MaxFunctionLines = 80
    /\ config.GodObject = getDefaultConfig.GodObject
    /\ config.Rules.EnableSizeRule = "false"
    /\ config.Rules.EnableGodObjectRule = "true"

C30_EveryRunSeesTheRunBefore ==
    /\ [][/\ Len(historyFile') = Len(historyFile) + 1
          /\ SubSeq(historyFile', 1, Len(historyFile)) = historyFile]_vars
    /\ [](/\ Len(summaries) = Len(historyFile)
          /\ \A n \in 2..Len(summaries) :
                /\ summaries[n].hasPrevious
                /\ summaries[n].Previous = historyFile[n - 1].Score
                /\ summaries[n].Delta =
                       historyFile[n].Score - historyFile[n - 1].Score)

\* ------------------------------------------------------------------- C21
\* C21: the analyze command exits with code 1 exactly when the analysis
\* detected circular dependencies, and with code 0 when it detected none.
C21_ExitCodeByCycles ==
    exitCode # -1 =>
        /\ exitCode \in {0, 1}
        /\ exitCode = 1 <=> report.Score.CircularCount > 0

\* ------------------------------------------------------------------- C25
\* C25: the score of a run whose configuration has enable_size_rule false
\* counts no size violation and takes no size penalty, and the score of a
\* run whose configuration has enable_god_object_rule false counts no god
\* object and takes no god-object penalty.
C25_DisabledRulesCountNothing ==
    report.made =>
        /\ config.Rules.EnableSizeRule = "false" =>
              (report.Score.SizeCount = 0 /\ report.Score.SizePenalty = 0)
        /\ config.Rules.EnableGodObjectRule = "false" =>
              (report.Score.GodObjectCount = 0
                  /\ report.Score.GodObjectPenalty = 0)

\* ------------------------------------------------------------------- C29
\* C29: the report GenerateReport builds from a freshly constructed scorer
\* lists as many circular violations as its score counts and as many layer
\* violations as its score counts, and has HasViolations true whenever the
\* score counts a circular or a layer violation.
C29_ReportAgreesWithScore ==
    report.made =>
        /\ Len(report.Circular) = report.Score.CircularCount
        /\ Len(report.Layer) = report.Score.LayerCount
        /\ (report.Score.CircularCount >= 1 \/ report.Score.LayerCount >= 1)
              => report.HasViolations

\* ------------------------------------------------------------------- C22
\* The cycle lists a pass of DetectCycles run alone over g can return: every
\* order of the roots and of the successors, followed to the end.  A search
\* state is [visited, path, cycles]; the nodes on the recursion stack are
\* those of path.
RECURSIVE C22_Dfs(_, _, _), C22_Successors(_, _, _), C22_Roots(_, _, _)
C22_Dfs(g, node, st) ==
    LET entered == [visited |-> st.visited \cup {node},
                    path |-> Append(st.path, node),
                    cycles |-> st.cycles]
    IN  UNION {{[s EXCEPT !.path = st.path] :
                    s \in C22_Successors(g, deps, entered)} :
               deps \in GetDependencies(g, node)}

C22_Successors(g, deps, st) ==
    IF deps = <<>>
    THEN {st}
    ELSE LET dep == Head(deps)
             after == IF dep \notin st.visited
                      THEN C22_Dfs(g, dep, st)
                      ELSE IF dep \in Range(st.path)
                      THEN {[st EXCEPT !.cycles = WithCycle(st.cycles, st.path, dep)]}
                      ELSE {st}
         IN  UNION {C22_Successors(g, Tail(deps), s) : s \in after}

C22_Roots(g, rest, st) ==
    IF rest = {}
    THEN {st.cycles}
    ELSE UNION {IF node \in st.visited
                THEN C22_Roots(g, rest \ {node}, st)
                ELSE UNION {C22_Roots(g, rest \ {node}, s) : s \in C22_Dfs(g, node, st)} :
                node \in rest}

C22_DetectCyclesAlone(g) ==
    C22_Roots(g, g.nodes, [visited |-> {}, path |-> <<>>, cycles |-> <<>>])

\* The state of the circular pass, and the state of the layer pass.
C22_CircularPass == <<pc, dfsVars, circularViolations>>

C22_LayerPass == <<layerPc, layerTodo, layerViolations>>

=============================================================================
